---- MODULE Spec2Model ----
(***************************************************************************)
(* State-machine model of the sensor dashboard (src/main.py): the          *)
(* process-wide SensorDashboard instance, the module-level globals, the    *)
(* NiceGUI event handlers, and the hosted store as the handlers see it.    *)
(*                                                                         *)
(* Time is counted in whole seconds.  An aware datetime is the pair        *)
(* [utc, off]: the instant in seconds and the UTC offset it is displayed   *)
(* with.  A naive datetime is its wall-clock value in seconds.  A          *)
(* timestamp string of the store is [kind, wall]: the wall-clock value     *)
(* written in the string and the way the string ends.                      *)
(*                                                                         *)
(* Every handler of the program is a coroutine without a real suspension   *)
(* point (the store client is synchronous), so a handler is one action.    *)
(* The section on the event loop has the same handlers cut at their awaits *)
(* and shows that no other handler runs between the pieces.                *)
(***************************************************************************)
EXTENDS Integers, Sequences, FiniteSets, TLC

VARIABLES
    supabase,            \* SensorDashboard.supabase: TRUE iff a client was created
    authenticated,       \* SensorDashboard.authenticated
    filter_range,        \* SensorDashboard.filter_range
    custom_start_date,   \* SensorDashboard.custom_start_date (None or a date)
    custom_end_date,     \* SensorDashboard.custom_end_date
    device_stats,        \* SensorDashboard.device_stats
    sensor_data,         \* SensorDashboard.sensor_data
    historical_data,     \* module global historical_data
    stats_labels,        \* texts of active_sensors_label / data_points_label
    store,               \* contents of the hosted store (read only)
    page,                \* what each browser session currently displays
    now,                 \* the clock: datetime.now(), as a UTC instant
    event,               \* history: the handler or method that ran last, with its inputs and outputs
    auth_history,        \* history: the last authentication change ("none", "login", "logout")
    stats_origin,        \* history: where the two fields of device_stats come from
    tasks                \* the handlers the event loop has started and not finished

vars == <<supabase, authenticated, filter_range, custom_start_date, custom_end_date,
          device_stats, sensor_data, historical_data, stats_labels, store, page, now,
          event, auth_history, stats_origin, tasks>>

-----------------------------------------------------------------------------
(* Bounds of the model *)

\* the clock advances at most this many times
MaxTicks == 1

\* a list handed to a chart builder has at most this many rows
MaxRows == 3

\* the event loop holds at most this many started handlers
MaxInFlight == 2

-----------------------------------------------------------------------------
(* Program constants *)

Minute == 60
Hour == 3600
Day == 86400
StaleHours == 4
DemoActiveSensors == 12
DemoDataPointsToday == 2847

DASHBOARD_USER == "admin"
DASHBOARD_PASS == "password"

\* Europe/Nicosia during daylight saving time; the model keeps one offset.
CyprusOffset == 3 * Hour

-----------------------------------------------------------------------------
(* Python values *)

None == <<>>
Some(x) == <<x>>
EmptyDict == [k \in {} |-> None]

\* dict.get(key, default)
Get(d, key, default) == IF key \in DOMAIN d THEN d[key] ELSE default

\* an aware datetime
Aware(utc, off) == [utc |-> utc, off |-> off]

\* the wall-clock reading of an aware datetime (what strftime prints)
WallOf(dt) == dt.utc + dt.off

\* datetime.now(CYPRUS_TZ)
NowCyprus(t) == Aware(t, CyprusOffset)

\* CYPRUS_TZ.localize(naive): the naive wall clock read as Cyprus time
Localize(wall) == Aware(wall - CyprusOffset, CyprusOffset)

\* dt.replace(hour=0, minute=0, second=0, microsecond=0)
Midnight(dt) == Aware(((WallOf(dt) \div Day) * Day) - dt.off, dt.off)

-----------------------------------------------------------------------------
(* Timestamp strings of the store *)

\* How a timestamp string ends / what it is:
\*   "+00:00", "+00"  the zero-offset marker in its two spellings
\*   "naive"          no offset at all
\*   "+03:00"         a non-zero offset
\*   "unparsable"     a string datetime.fromisoformat rejects
\*   "empty"          the empty string
\*   "missing"        no timestamp (None)
ZeroMarked == {"+00:00", "+00"}
TsKinds == ZeroMarked \cup {"naive", "+03:00", "unparsable", "empty", "missing"}

Ts(kind, wall) == [kind |-> kind, wall |-> wall]

\* Python truthiness of a timestamp string: None and '' are falsy
Falsy(ts) == ts.kind \in {"missing", "empty"}

\* the UTC offset written in the string
WrittenOffset(ts) == IF ts.kind = "+03:00" THEN 3 * Hour ELSE 0

\* how the store itself reads a timestamptz value: the label as written
StoreInstant(ts) == ts.wall - WrittenOffset(ts)

\* lines 420-431: strip the zero marker, parse the rest as naive, localize.
\* fromisoformat raises on an unparsable string; localize raises on a
\* datetime that already carries an offset.
StripAndLocalize(ts) ==
    IF ts.kind \in ZeroMarked \cup {"naive"}
    THEN [exc |-> FALSE, dt |-> Localize(ts.wall)]
    ELSE [exc |-> TRUE, dt |-> Aware(0, 0)]

\* a plausible slip in the buckets: <= where the source has <
RelativeLabel_le(total_seconds) ==
    IF total_seconds < 0
    THEN LET a == -total_seconds
         IN  IF a <= Minute THEN "Just now"
             ELSE IF a <= Hour THEN ToString(a \div Minute) \o " min from now"
             ELSE ToString(a \div Hour) \o " hr from now"
    ELSE IF total_seconds <= Minute THEN "Just now"
    ELSE IF total_seconds <= Hour THEN ToString(total_seconds \div Minute) \o " min ago"
    ELSE IF total_seconds <= Day THEN ToString(total_seconds \div Hour) \o " hr ago"
    ELSE ToString(total_seconds \div Day) \o " days ago"

\* a plausible slip in the buckets: the test of the hours branch reversed
RelativeLabel_reversed(total_seconds) ==
    IF total_seconds < 0
    THEN LET a == -total_seconds
         IN  IF a < Minute THEN "Just now"
             ELSE IF a < Hour THEN ToString(a \div Minute) \o " min from now"
             ELSE ToString(a \div Hour) \o " hr from now"
    ELSE IF total_seconds < Minute THEN "Just now"
    ELSE IF total_seconds < Hour THEN ToString(total_seconds \div Minute) \o " min ago"
    ELSE IF total_seconds > Day THEN ToString(total_seconds \div Hour) \o " hr ago"
    ELSE ToString(total_seconds \div Day) \o " days ago"

\* lines 436-463: the relative-time label of a difference in seconds
RelativeLabel(total_seconds) ==
    IF total_seconds < 0
    THEN LET a == -total_seconds
         IN  IF a < Minute THEN "Just now"
             ELSE IF a < Hour THEN ToString(a \div Minute) \o " min from now"
             ELSE ToString(a \div Hour) \o " hr from now"
    ELSE IF total_seconds < Minute THEN "Just now"
    ELSE IF total_seconds < Hour THEN ToString(total_seconds \div Minute) \o " min ago"
    ELSE IF total_seconds < Day THEN ToString(total_seconds \div Hour) \o " hr ago"
    ELSE ToString(total_seconds \div Day) \o " days ago"

\* SensorDashboard.format_timestamp, evaluated at clock reading t
format_timestamp(ts, t) ==
    IF Falsy(ts) THEN "Unknown"
    ELSE LET p == StripAndLocalize(ts)
         IN  IF p.exc THEN "Unknown"
             ELSE RelativeLabel(NowCyprus(t).utc - p.dt.utc)

\* lines 476-487 and 220-222: '+00' is rewritten to '+00:00' and the string
\* parsed with its offset; a naive or zero-offset result is read as UTC.
ParseWithOffset(ts) ==
    IF ts.kind \in ZeroMarked \cup {"naive"}
    THEN [exc |-> FALSE, dt |-> Aware(ts.wall, 0)]
    ELSE IF ts.kind = "+03:00"
    THEN [exc |-> FALSE, dt |-> Aware(ts.wall - WrittenOffset(ts), WrittenOffset(ts))]
    ELSE [exc |-> TRUE, dt |-> Aware(0, 0)]

\* lines 489-493: hours_diff > hours
OlderThan(dt, hours, t) == (NowCyprus(t).utc - dt.utc) > hours * Hour

\* SensorDashboard.is_data_stale, evaluated at clock reading t
is_data_stale(ts, hours, t) ==
    IF Falsy(ts) THEN TRUE
    ELSE LET p == ParseWithOffset(ts)
         IN  IF p.exc THEN TRUE
             ELSE OlderThan(p.dt, hours, t)

-----------------------------------------------------------------------------
(* The hosted store, as the queries of the program see it *)

\* the clock reading at which the model starts: day 100, 12:00 UTC
Now0 == 100 * Day + 12 * Hour

\* the dates the operator picks in the two ui.date fields of the custom range
StartDates == {99, 101}
EndDates == {100}

Row(device, ts, temperature, humidity) ==
    [device_name |-> device, timestamp |-> ts,
     temperature |-> temperature, humidity |-> humidity]

\* table sensor_readings, in timestamp order.  Rows sit on the ends of the
\* intervals the filters resolve to at Now0; one row, 20 days back, has a
\* timestamp Python cannot parse; the last 12 hours hold no temperature.
StoreReadings ==
    << Row("Attic", Ts("unparsable", Now0 - 20 * Day), Some(30), Some(30)),
       Row("Living Room", Ts("+00:00", 99 * Day - CyprusOffset), Some(21), Some(40)),
       Row("Kitchen", Ts("+00:00", 99 * Day), Some(23), Some(44)),
       Row("Bedroom", Ts("+00", 100 * Day - CyprusOffset), Some(19), None),
       Row("Living Room", Ts("+00:00", Now0 - 12 * Hour), None, Some(50)),
       Row("Kitchen", Ts("+00:00", Now0), None, Some(55)) >>

\* view latest_sensor_readings: one row per device
StoreLatest ==
    << Row("Living Room", Ts("+00:00", Now0 + CyprusOffset - StaleHours * Hour), Some(21), Some(40)),
       Row("Bedroom", Ts("+00", Now0 - StaleHours * Hour), Some(19), None),
       Row("Kitchen", Ts("+00:00", Now0 + CyprusOffset - 90), Some(24), Some(55)),
       Row("Bathroom", Ts("+00:00", Now0 - 6 * Hour), None, Some(68)),
       Row("Hall", Ts("missing", 0), Some(21), None),
       Row("Attic", Ts("unparsable", 0), None, Some(52)),
       Row("Porch", Ts("empty", 0), Some(24), Some(55)),
       Row("Garage", Ts("+03:00", Now0 + CyprusOffset - Hour), Some(15), None),
       Row("Cellar", Ts("naive", Now0 + CyprusOffset - 5 * Hour), None, Some(70)) >>

\* the store the model runs against, and the one Init gives a run without a client
TheStore == [devices |-> 3, readings |-> StoreReadings, latest |-> StoreLatest]
NoStore == [devices |-> 0, readings |-> <<>>, latest |-> <<>>]

\* outcome of one store query (.execute()): it returns or it raises
Outcomes == {"ok", "error"}

\* a plausible slip in the query: .lt instead of .lte
SelectRange_lt(readings, since, until) ==
    SelectSeq(readings, LAMBDA r : /\ since.utc <= StoreInstant(r.timestamp)
                                   /\ StoreInstant(r.timestamp) < until.utc)

\* .gte('timestamp', since).lte('timestamp', until).order('timestamp')
SelectRange(readings, since, until) ==
    SelectSeq(readings, LAMBDA r : /\ since.utc <= StoreInstant(r.timestamp)
                                   /\ StoreInstant(r.timestamp) <= until.utc)

\* .gte('timestamp', today_start): the rows counted as today's data points
SelectSince(readings, since) ==
    SelectSeq(readings, LAMBDA r : since.utc <= StoreInstant(r.timestamp))

-----------------------------------------------------------------------------
(* Data access: fetch_device_stats *)

StatFields == {"active_sensors", "data_points_today"}

\* lines 74-84, the body of the try.  exc: a query raised.  wrote: the
\* fields of self.device_stats assigned before that.
FetchDeviceStatsBody(stats, st, t, q1, q2) ==
    IF q1 = "error"
    THEN [exc |-> TRUE, device_stats |-> stats, wrote |-> {},
          queries |-> <<"devices">>]
    ELSE LET s1 == [stats EXCEPT !.active_sensors = st.devices]
             today_start_cyprus == Midnight(NowCyprus(t))
             s2 == [s1 EXCEPT !.data_points_today =
                                 Len(SelectSince(st.readings, today_start_cyprus))]
         IN  IF q2 = "error"
             THEN [exc |-> TRUE, device_stats |-> s1, wrote |-> {"active_sensors"},
                   queries |-> <<"devices", "sensor_readings">>]
             ELSE [exc |-> FALSE, device_stats |-> s2, wrote |-> StatFields,
                   queries |-> <<"devices", "sensor_readings">>]

\* SensorDashboard.fetch_device_stats.  failed: the except clause ran;
\* raised: an exception left the method.
fetch_device_stats(has_store, stats, st, t, q1, q2) ==
    IF ~has_store
    THEN [raised |-> FALSE, failed |-> FALSE, wrote |-> StatFields, queries |-> <<>>,
          device_stats |-> [active_sensors |-> DemoActiveSensors,
                            data_points_today |-> DemoDataPointsToday]]
    ELSE LET b == FetchDeviceStatsBody(stats, st, t, q1, q2)
         IN  [raised |-> FALSE, failed |-> b.exc, wrote |-> b.wrote,
              queries |-> b.queries, device_stats |-> b.device_stats]

-----------------------------------------------------------------------------
(* Data access: fetch_latest_sensor_data *)

\* f"{value:.1f}" of a whole number
Fmt1f(v) == ToString(v) \o ".0"

SensorCard(name, value, unit, timestamp, is_stale) ==
    [name |-> name, value |-> value, unit |-> unit,
     timestamp |-> timestamp, is_stale |-> is_stale]

\* lines 93-104; the unit of a temperature card, written with the degree
\* sign in the source, is "C" here
DemoSensorData ==
    [temperature_sensors |->
        << SensorCard("Living Room", "22.5", "C", "2 min ago", FALSE),
           SensorCard("Bedroom", "20.1", "C", "3 min ago", FALSE),
           SensorCard("Kitchen", "24.2", "C", "1 min ago", FALSE) >>,
     humidity_sensors |->
        << SensorCard("Living Room", "45", "%", "2 min ago", FALSE),
           SensorCard("Bedroom", "52", "%", "3 min ago", FALSE),
           SensorCard("Bathroom", "68", "%", "4 min ago", FALSE) >>]

\* lines 115-141: the card of one reading of the latest view
TemperatureCard(reading, t) ==
    SensorCard(reading.device_name, Fmt1f(reading.temperature[1]), "C",
               format_timestamp(reading.timestamp, t),
               is_data_stale(reading.timestamp, StaleHours, t))

HumidityCard(reading, t) ==
    SensorCard(reading.device_name, Fmt1f(reading.humidity[1]), "%",
               format_timestamp(reading.timestamp, t),
               is_data_stale(reading.timestamp, StaleHours, t))

\* lines 107-146, the body of the try
FetchLatestBody(sensor, st, t, q) ==
    IF q = "error"
    THEN [exc |-> TRUE, sensor_data |-> sensor]
    ELSE LET temp == SelectSeq(st.latest, LAMBDA r : r.temperature # None)
             hum == SelectSeq(st.latest, LAMBDA r : r.humidity # None)
         IN  [exc |-> FALSE,
              sensor_data |->
                [temperature_sensors |-> [i \in 1..Len(temp) |-> TemperatureCard(temp[i], t)],
                 humidity_sensors |-> [i \in 1..Len(hum) |-> HumidityCard(hum[i], t)]]]

\* a plausible slip in fetch_latest_sensor_data: no demo branch, so that
\* without a client self.supabase.table raises inside the try
fetch_latest_sensor_data_no_demo(has_store, sensor, st, t, q) ==
    IF ~has_store
    THEN [raised |-> FALSE, failed |-> TRUE, queries |-> <<>>, sensor_data |-> sensor]
    ELSE LET b == FetchLatestBody(sensor, st, t, q)
         IN  [raised |-> FALSE, failed |-> b.exc,
              queries |-> <<"latest_sensor_readings">>, sensor_data |-> b.sensor_data]

\* SensorDashboard.fetch_latest_sensor_data
fetch_latest_sensor_data(has_store, sensor, st, t, q) ==
    IF ~has_store
    THEN [raised |-> FALSE, failed |-> FALSE, queries |-> <<>>,
          sensor_data |-> DemoSensorData]
    ELSE LET b == FetchLatestBody(sensor, st, t, q)
         IN  [raised |-> FALSE, failed |-> b.exc,
              queries |-> <<"latest_sensor_readings">>, sensor_data |-> b.sensor_data]

-----------------------------------------------------------------------------
(* Time-range resolution and fetch_historical_data *)

\* the tokens of the filter buttons and of apply_custom_filter
Tokens == {"12h", "24h", "7d", "30d", "custom"}

\* datetime.fromisoformat of a ui.date value: naive midnight of that date
DateMidnight(date) == date * Day

\* a plausible slip in the demo branch: the else falls back to 12 hours
DemoHours_default12(time_range) ==
    IF time_range = "12h" THEN 12
    ELSE IF time_range = "24h" THEN 24
    ELSE IF time_range = "7d" THEN 24 * 7
    ELSE IF time_range = "30d" THEN 24 * 30
    ELSE 12

\* lines 158-167: the number of hourly demo points
DemoHours(time_range) ==
    IF time_range = "12h" THEN 12
    ELSE IF time_range = "24h" THEN 24
    ELSE IF time_range = "7d" THEN 24 * 7
    ELSE IF time_range = "30d" THEN 24 * 30
    ELSE 24

\* lines 184-205: the interval the store is asked for
ResolveRange(time_range, start_date, end_date, t) ==
    LET now_cyprus == NowCyprus(t)
        back(seconds) == Aware(now_cyprus.utc - seconds, now_cyprus.off)
    IN  IF time_range = "12h" THEN [since |-> back(12 * Hour), until |-> now_cyprus]
        ELSE IF time_range = "24h" THEN [since |-> back(24 * Hour), until |-> now_cyprus]
        ELSE IF time_range = "7d" THEN [since |-> back(7 * Day), until |-> now_cyprus]
        ELSE IF time_range = "30d" THEN [since |-> back(30 * Day), until |-> now_cyprus]
        ELSE IF time_range = "custom" /\ start_date # None /\ end_date # None
        THEN [since |-> Localize(DateMidnight(start_date[1])),
              until |-> Localize(DateMidnight(end_date[1]))]
        ELSE [since |-> back(24 * Hour), until |-> now_cyprus]

\* a row of temperature_history carries 'temperature', one of humidity_history 'humidity'
HistoryRow(device, timestamp, field, value) ==
    IF field = "temperature"
    THEN [device_name |-> device, timestamp |-> timestamp, temperature |-> value]
    ELSE [device_name |-> device, timestamp |-> timestamp, humidity |-> value]

History(temperature_history, humidity_history) ==
    [temperature_history |-> temperature_history, humidity_history |-> humidity_history]

\* lines 155-180: the demo series, one point per hour up to one hour ago
DemoHistory(time_range, t) ==
    LET hours == DemoHours(time_range)
        ts(i) == Aware(NowCyprus(t).utc - (hours - i) * Hour, CyprusOffset)
    IN  History([i \in 1..hours |->
                    HistoryRow("Living Room", ts(i - 1), "temperature", 22 + ((i - 1) % 4))],
                [i \in 1..hours |->
                    HistoryRow("Living Room", ts(i - 1), "humidity", 45 + ((i - 1) % 10))])

\* lines 216-241: the rows of the response that carry the measurement
HistoryOf(response, field) ==
    LET rows == SelectSeq(response, LAMBDA r : r[field] # None)
    IN  [i \in 1..Len(rows) |->
            HistoryRow(rows[i].device_name, ParseWithOffset(rows[i].timestamp).dt,
                       field, rows[i][field][1])]

\* a row whose timestamp is parsed (it carries a measurement) and cannot be
RaisesOnParse(response) ==
    \E i \in 1..Len(response) :
        /\ response[i].temperature # None \/ response[i].humidity # None
        /\ ParseWithOffset(response[i].timestamp).exc

\* lines 182-246, the body of the try
FetchHistoricalBody(time_range, start_date, end_date, st, t, q) ==
    LET range == ResolveRange(time_range, start_date, end_date, t)
        response == SelectRange(st.readings, range.since, range.until)
    IN  IF q = "error"
        THEN [exc |-> TRUE, range |-> range, response |-> <<>>, result |-> EmptyDict]
        ELSE IF RaisesOnParse(response)
        THEN [exc |-> TRUE, range |-> range, response |-> response, result |-> EmptyDict]
        ELSE [exc |-> FALSE, range |-> range, response |-> response,
              result |-> History(HistoryOf(response, "temperature"),
                                 HistoryOf(response, "humidity"))]

\* a plausible slip in fetch_historical_data: the store branch without its
\* try/except
fetch_historical_data_uncaught(has_store, time_range, start_date, end_date, st, t, q) ==
    IF ~has_store
    THEN [raised |-> FALSE, failed |-> FALSE, queries |-> <<>>,
          hours |-> Some(DemoHours(time_range)), range |-> None, response |-> <<>>,
          result |-> DemoHistory(time_range, t)]
    ELSE LET b == FetchHistoricalBody(time_range, start_date, end_date, st, t, q)
         IN  [raised |-> b.exc, failed |-> FALSE, queries |-> <<"sensor_readings">>,
              hours |-> None, range |-> Some(b.range), response |-> b.response,
              result |-> b.result]

\* SensorDashboard.fetch_historical_data.  range: the interval resolved
\* (None in demo mode, which resolves a number of hours instead).
fetch_historical_data(has_store, time_range, start_date, end_date, st, t, q) ==
    IF ~has_store
    THEN [raised |-> FALSE, failed |-> FALSE, queries |-> <<>>,
          hours |-> Some(DemoHours(time_range)), range |-> None, response |-> <<>>,
          result |-> DemoHistory(time_range, t)]
    ELSE LET b == FetchHistoricalBody(time_range, start_date, end_date, st, t, q)
         IN  [raised |-> FALSE, failed |-> b.exc, queries |-> <<"sensor_readings">>,
              hours |-> None, range |-> Some(b.range), response |-> b.response,
              result |-> IF b.exc THEN EmptyDict ELSE b.result]

-----------------------------------------------------------------------------
(* Chart builders *)

\* range_titles.get(time_range, 'Last 24 Hours')
RangeTitle(time_range) ==
    IF time_range = "12h" THEN "Last 12 Hours"
    ELSE IF time_range = "24h" THEN "Last 24 Hours"
    ELSE IF time_range = "7d" THEN "Last 7 Days"
    ELSE IF time_range = "30d" THEN "Last 30 Days"
    ELSE IF time_range = "custom" THEN "Custom Range"
    ELSE "Last 24 Hours"

\* df['device_name'].unique(): the names in the order they first appear
UniqueDevices(data) ==
    LET first == SelectSeq([i \in 1..Len(data) |-> i],
                           LAMBDA i : \A j \in 1..(i - 1) :
                                          data[j].device_name # data[i].device_name)
    IN  [k \in 1..Len(first) |-> data[first[k]].device_name]

\* a plausible slip in the loop: the trace is cut from df, not from
\* device_data
DeviceTrace_unfiltered(data, device, field) ==
    [name |-> device,
     x |-> [i \in 1..Len(data) |-> data[i].timestamp],
     y |-> [i \in 1..Len(data) |-> data[i][field]]]

\* lines 265-272 and 313-321: go.Scatter over df[df['device_name'] == device]
DeviceTrace(data, device, field) ==
    LET device_data == SelectSeq(data, LAMBDA r : r.device_name = device)
    IN  [name |-> device,
         x |-> [i \in 1..Len(device_data) |-> device_data[i].timestamp],
         y |-> [i \in 1..Len(device_data) |-> device_data[i][field]]]

\* a figure: its annotation, its traces in the order they were added, and
\* the fill of each trace
Figure(annotation, title, traces, fills) ==
    [annotation |-> annotation, title |-> title, traces |-> traces, fills |-> fills]

\* SensorDashboard.create_temperature_graph
create_temperature_graph(data, time_range) ==
    IF Len(data) = 0
    THEN Figure(Some("No temperature data available"), None, <<>>, <<>>)
    ELSE LET devices == UniqueDevices(data)
         IN  Figure(None, Some("Temperature Trends - " \o RangeTitle(time_range)),
                    [k \in 1..Len(devices) |-> DeviceTrace(data, devices[k], "temperature")],
                    [k \in 1..Len(devices) |-> None])

\* SensorDashboard.create_humidity_graph; every trace after the first is
\* filled down to the one before it
create_humidity_graph(data, time_range) ==
    IF Len(data) = 0
    THEN Figure(Some("No humidity data available"), None, <<>>, <<>>)
    ELSE LET devices == UniqueDevices(data)
         IN  Figure(None, Some("Humidity Trends - " \o RangeTitle(time_range)),
                    [k \in 1..Len(devices) |-> DeviceTrace(data, devices[k], "humidity")],
                    [k \in 1..Len(devices) |-> IF k > 1 THEN Some("tonexty") ELSE None])

\* the value strings a card can carry, each with the number float() reads
\* from it, in tenths
FloatTable ==
    {<<Fmt1f(v), 10 * v>> : v \in 0..99}
        \cup {<<"22.5", 225>>, <<"20.1", 201>>, <<"24.2", 242>>,
              <<"45", 450>>, <<"52", 520>>, <<"68", 680>>}

\* float(sensor['value']), in tenths
Float(value) == (CHOOSE p \in FloatTable : p[1] = value)[2]

\* the position of a key in a dict kept as a sequence of entries, 0 when
\* the key is not in it
IndexOf(device_data, name) ==
    IF \E k \in DOMAIN device_data : device_data[k].name = name
    THEN CHOOSE k \in DOMAIN device_data : device_data[k].name = name
    ELSE 0

\* device_data[name] = values: an existing key keeps its place
SetItem(device_data, name, values) ==
    IF IndexOf(device_data, name) = 0
    THEN Append(device_data, [name |-> name, values |-> values])
    ELSE [device_data EXCEPT ![IndexOf(device_data, name)].values = values]

RECURSIVE AddTemperatures(_, _)
\* lines 367-368
AddTemperatures(device_data, temp_sensors) ==
    IF Len(temp_sensors) = 0 THEN device_data
    ELSE AddTemperatures(
             SetItem(device_data, Head(temp_sensors).name,
                     [temp |-> Some(Float(Head(temp_sensors).value)), humidity |-> None]),
             Tail(temp_sensors))

RECURSIVE AddHumidities_overwrite(_, _)
\* a plausible slip in the second loop: the entry is always replaced
AddHumidities_overwrite(device_data, humidity_sensors) ==
    IF Len(humidity_sensors) = 0 THEN device_data
    ELSE AddHumidities_overwrite(
             SetItem(device_data, Head(humidity_sensors).name,
                     [temp |-> None, humidity |-> Some(Float(Head(humidity_sensors).value))]),
             Tail(humidity_sensors))

RECURSIVE AddHumidities(_, _)
\* lines 370-374
AddHumidities(device_data, humidity_sensors) ==
    IF Len(humidity_sensors) = 0 THEN device_data
    ELSE LET sensor == Head(humidity_sensors)
             k == IndexOf(device_data, sensor.name)
         IN  AddHumidities(
                 IF k # 0
                 THEN [device_data EXCEPT ![k].values.humidity = Some(Float(sensor.value))]
                 ELSE SetItem(device_data, sensor.name,
                              [temp |-> None, humidity |-> Some(Float(sensor.value))]),
                 Tail(humidity_sensors))

\* values.get(key, 0)
GetOrZero(value) == IF value = None THEN 0 ELSE value[1]

\* SensorDashboard.create_sensor_summary_chart over self.sensor_data: the
\* annotation, and the x and y of the two bar traces
create_sensor_summary_chart(sensor) ==
    LET temp_sensors == Get(sensor, "temperature_sensors", <<>>)
        humidity_sensors == Get(sensor, "humidity_sensors", <<>>)
        device_data == AddHumidities(AddTemperatures(<<>>, temp_sensors), humidity_sensors)
    IN  IF Len(temp_sensors) = 0 /\ Len(humidity_sensors) = 0
        THEN [annotation |-> Some("No sensor data available"),
              devices |-> <<>>, temperatures |-> <<>>, humidities |-> <<>>]
        ELSE [annotation |-> None,
              devices |-> [k \in DOMAIN device_data |-> device_data[k].name],
              temperatures |-> [k \in DOMAIN device_data |-> GetOrZero(device_data[k].values.temp)],
              humidities |-> [k \in DOMAIN device_data |-> GetOrZero(device_data[k].values.humidity)]]

-----------------------------------------------------------------------------
(* Export encoder: export_to_csv *)

DataTypes == {"temperature", "humidity", "all"}

\* `not x` of a list, df.empty of a frame
Empty(rows) == DOMAIN rows = {}

\* the join key of pd.merge(on=['timestamp', 'device_name'])
KeyOf(row) == <<row.timestamp.utc, row.device_name>>

\* a row of the data frame; a cell without a value (NaN, or a column the
\* frame lacks) is None
FrameRow(device, timestamp, temperature, humidity) ==
    [device_name |-> device, timestamp |-> timestamp,
     temperature |-> temperature, humidity |-> humidity]

\* a plausible slip in the merge: how='left', which drops the rows only the
\* right frame has
MergeLeft(temp, hum) ==
    LET match(i) == {j \in 1..Len(hum) : KeyOf(hum[j]) = KeyOf(temp[i])}
    IN  [i \in 1..Len(temp) |->
            FrameRow(temp[i].device_name, temp[i].timestamp,
                     Some(temp[i].temperature),
                     IF match(i) = {} THEN None
                     ELSE Some(hum[CHOOSE j \in match(i) : TRUE].humidity))]

\* lines 519-524: the outer join of the two frames.  Neither series of the
\* model repeats a key.  Rows of the left frame come first, each with its
\* match, then the rows only the right frame has.
MergeOuter(temp, hum) ==
    IF /\ Len(temp) = Len(hum)
       /\ \A i \in 1..Len(temp) : KeyOf(temp[i]) = KeyOf(hum[i])
    THEN [i \in 1..Len(temp) |->
            FrameRow(temp[i].device_name, temp[i].timestamp,
                     Some(temp[i].temperature), Some(hum[i].humidity))]
    ELSE LET match(i) == {j \in 1..Len(hum) : KeyOf(hum[j]) = KeyOf(temp[i])}
             left == [i \in 1..Len(temp) |->
                        FrameRow(temp[i].device_name, temp[i].timestamp,
                                 Some(temp[i].temperature),
                                 IF match(i) = {} THEN None
                                 ELSE Some(hum[CHOOSE j \in match(i) : TRUE].humidity))]
             only == SelectSeq(hum, LAMBDA h :
                        \A i \in 1..Len(temp) : KeyOf(temp[i]) # KeyOf(h))
             right == [j \in 1..Len(only) |->
                        FrameRow(only[j].device_name, only[j].timestamp,
                                 None, Some(only[j].humidity))]
         IN  left \o right

\* line 540: df.sort_values('timestamp'); rows with equal timestamps keep
\* their order
SortByTimestamp(rows) ==
    IF \A i \in 1..(Len(rows) - 1) : rows[i].timestamp.utc <= rows[i + 1].timestamp.utc
    THEN rows
    ELSE LET n == Len(rows)
             pos(i) == 1 + Cardinality({j \in 1..n :
                              \/ rows[j].timestamp.utc < rows[i].timestamp.utc
                              \/ /\ rows[j].timestamp.utc = rows[i].timestamp.utc
                                 /\ j < i})
         IN  [p \in 1..n |-> rows[CHOOSE i \in 1..n : pos(i) = p]]

\* line 543: strftime('%Y-%m-%d %H:%M:%S'): the wall clock of the timestamp
FormatRows(rows) ==
    [i \in 1..Len(rows) |-> [rows[i] EXCEPT !.timestamp = WallOf(rows[i].timestamp)]]

\* a single-series frame
SeriesFrame(series, field) ==
    [i \in 1..Len(series) |->
        IF field = "temperature"
        THEN FrameRow(series[i].device_name, series[i].timestamp,
                      Some(series[i].temperature), None)
        ELSE FrameRow(series[i].device_name, series[i].timestamp,
                      None, Some(series[i].humidity))]

\* a plausible slip in the chain of branches: the combined branch taken
\* for every data type the branches before it did not serve
ExportChoice_fallthrough(data_type, historical) ==
    LET temp == Get(historical, "temperature_history", <<>>)
        hum == Get(historical, "humidity_history", <<>>)
        choice(kind, frame) == Some([kind |-> kind, frame |-> frame])
    IN  IF Empty(historical) THEN None
        ELSE IF data_type = "temperature" /\ ~Empty(temp)
        THEN choice("temperature", "temperature")
        ELSE IF data_type = "humidity" /\ ~Empty(hum)
        THEN choice("humidity", "humidity")
        ELSE IF ~Empty(temp) /\ ~Empty(hum) THEN choice("sensor", "merged")
        ELSE IF ~Empty(temp) THEN choice("sensor", "temperature")
        ELSE IF ~Empty(hum) THEN choice("sensor", "humidity")
        ELSE None

\* lines 505-537: which frame is exported under which file name, or None
\* where the method returns None
ExportChoice(data_type, historical) ==
    LET temp == Get(historical, "temperature_history", <<>>)
        hum == Get(historical, "humidity_history", <<>>)
        choice(kind, frame) == Some([kind |-> kind, frame |-> frame])
    IN  IF Empty(historical) THEN None
        ELSE IF data_type = "temperature" /\ ~Empty(temp)
        THEN choice("temperature", "temperature")
        ELSE IF data_type = "humidity" /\ ~Empty(hum)
        THEN choice("humidity", "humidity")
        ELSE IF data_type = "all"
        THEN IF ~Empty(temp) /\ ~Empty(hum) THEN choice("sensor", "merged")
             ELSE IF ~Empty(temp) THEN choice("sensor", "temperature")
             ELSE IF ~Empty(hum) THEN choice("sensor", "humidity")
             ELSE None
        ELSE None

\* lines 512-528: the frame chosen, with its columns
ExportFrame(frame, historical) ==
    LET temp == Get(historical, "temperature_history", <<>>)
        hum == Get(historical, "humidity_history", <<>>)
    IN  IF frame = "temperature"
        THEN [columns |-> <<"device_name", "timestamp", "temperature">>,
              rows |-> SeriesFrame(temp, "temperature")]
        ELSE IF frame = "humidity"
        THEN [columns |-> <<"device_name", "timestamp", "humidity">>,
              rows |-> SeriesFrame(hum, "humidity")]
        ELSE [columns |-> <<"device_name", "timestamp", "temperature", "humidity">>,
              rows |-> MergeOuter(temp, hum)]

\* line 546, one cell of df.to_csv(index=False): a name and a formatted
\* timestamp as they are, a number as printed, a missing value as the
\* empty string
CsvCell(row, column) ==
    IF column \in {"device_name", "timestamp"} THEN row[column]
    ELSE IF row[column] = None THEN ""
    ELSE ToString(row[column][1])

\* line 546: the lines under the header, each with one cell per column
CsvLines(columns, rows) ==
    [i \in 1..Len(rows) |-> [c \in 1..Len(columns) |-> CsvCell(rows[i], columns[c])]]

\* lines 509 and 539-552: sort, format and encode
Encode(kind, frame, t) ==
    [filename |-> [kind |-> kind, stamp |-> WallOf(NowCyprus(t))],
     content |-> [header |-> frame.columns,
                  lines |-> CsvLines(frame.columns,
                                     FormatRows(SortByTimestamp(frame.rows)))],
     mime_type |-> "text/csv"]

\* SensorDashboard.export_to_csv: re-fetches with the filter token alone
export_to_csv(has_store, data_type, time_range, st, t, q) ==
    LET fetched == fetch_historical_data(has_store, time_range, None, None, st, t, q)
        choice == ExportChoice(data_type, fetched.result)
    IN  [raised |-> FALSE,
         fetched |-> [args |-> <<time_range, None, None>>, ret |-> fetched],
         result |-> IF choice = None THEN None
                    ELSE Some(Encode(choice[1].kind,
                                     ExportFrame(choice[1].frame, fetched.result), t))]

-----------------------------------------------------------------------------
(* Authentication *)

Sessions == {"s1", "s2"}

\* what a login form can be submitted with
Usernames == {"admin", "guest"}
Passwords == {"password", "letmein"}

\* a plausible slip in authenticate: one matching field is enough
authenticate_either(username, password) ==
    username = DASHBOARD_USER \/ password = DASHBOARD_PASS

\* SensorDashboard.authenticate
authenticate(username, password) ==
    username = DASHBOARD_USER /\ password = DASHBOARD_PASS

\* main_page: what a request for '/' renders
Rendered(is_authenticated) == IF is_authenticated THEN "dashboard" ELSE "login"

\* a plausible slip in logout: the flag is left as it is
logout_keeps_flag(is_authenticated) == is_authenticated

\* SensorDashboard.logout: the new value of self.authenticated
logout(is_authenticated) == FALSE

-----------------------------------------------------------------------------
(* The state after construction *)

ZeroStats == [active_sensors |-> 0, data_points_today |-> 0]

Init ==
    /\ supabase \in BOOLEAN
    /\ store = IF supabase THEN TheStore ELSE NoStore
    /\ authenticated = FALSE
    /\ filter_range = "24h"
    /\ custom_start_date = None
    /\ custom_end_date = None
    /\ device_stats = ZeroStats
    /\ sensor_data = EmptyDict
    /\ historical_data = EmptyDict
    /\ stats_labels = ZeroStats
    /\ page = [s \in Sessions |-> "none"]
    /\ now = Now0
    /\ event = [op |-> "init"]
    /\ auth_history = "none"
    /\ stats_origin = "constructor"
    /\ tasks = <<>>

\* the outcomes a store query of this run can have
Q == IF supabase THEN Outcomes ELSE {"ok"}

\* a session shows the dashboard (its initial load may still be pending)
ShowsDashboard(s) == page[s] \in {"loading", "dashboard"}

data_vars == <<filter_range, custom_start_date, custom_end_date, device_stats,
               sensor_data, historical_data, stats_labels, stats_origin>>

-----------------------------------------------------------------------------
(* Page requests, login, logout *)

\* main_page (lines 911-916); show_dashboard creates the stat labels with
\* text '0' and schedules the initial load.  first: the session had not
\* requested the page before, so it has never shown the login form.
MainPage(s) ==
    LET rendered == Rendered(authenticated)
    IN  /\ page' = [page EXCEPT ![s] = IF rendered = "dashboard" THEN "loading"
                                       ELSE "login"]
        /\ stats_labels' = IF rendered = "dashboard" THEN ZeroStats ELSE stats_labels
        /\ event' = [op |-> "page", session |-> s, rendered |-> rendered,
                     history |-> auth_history, first |-> (page[s] = "none")]
        /\ UNCHANGED <<tasks, supabase, store, authenticated, filter_range, custom_start_date,
                       custom_end_date, device_stats, sensor_data, historical_data,
                       now, auth_history, stats_origin>>

\* show_login.handle_login (lines 931-938)
HandleLogin(s, username, password) ==
    /\ page[s] = "login"
    /\ LET ok == authenticate(username, password)
       IN  /\ authenticated' = IF ok THEN TRUE ELSE authenticated
           /\ auth_history' = IF ok THEN "login" ELSE auth_history
           /\ event' = [op |-> "login", session |-> s, username |-> username,
                        password |-> password, result |-> ok]
    /\ UNCHANGED <<tasks, supabase, store, page, now>>
    /\ UNCHANGED data_vars

\* a plausible slip in the logout handler: the dashboard object is set back
\* to what its constructor leaves
HandleLogout_reset(s) ==
    /\ ShowsDashboard(s)
    /\ authenticated' = logout(authenticated)
    /\ auth_history' = "logout"
    /\ event' = [op |-> "logout", session |-> s]
    /\ filter_range' = "24h"
    /\ custom_start_date' = None
    /\ custom_end_date' = None
    /\ device_stats' = ZeroStats
    /\ sensor_data' = EmptyDict
    /\ UNCHANGED <<tasks, supabase, store, page, now, historical_data, stats_labels,
                   stats_origin>>

\* show_dashboard.handle_logout (lines 958-960)
HandleLogout(s) ==
    /\ ShowsDashboard(s)
    /\ authenticated' = logout(authenticated)
    /\ auth_history' = "logout"
    /\ event' = [op |-> "logout", session |-> s]
    /\ UNCHANGED <<tasks, supabase, store, page, now>>
    /\ UNCHANGED data_vars

-----------------------------------------------------------------------------
(* Dashboard handlers *)

\* history record of one fetch_historical_data call: its arguments, the
\* clock reading, the interval it resolved and how it ended (not the series)
HistCall(time_range, start_date, end_date, ret) ==
    [time_range |-> time_range, start_date |-> start_date, end_date |-> end_date,
     at |-> now, failed |-> ret.failed, queries |-> Len(ret.queries),
     hours |-> ret.hours, range |-> ret.range, returned |-> Len(ret.response)]

\* lines 759-766 and 889-896: the fetch for the current filter settings
FetchForFilter(range, start_date, end_date, q) ==
    IF range = "custom"
    THEN [args |-> <<range, start_date, end_date>>,
          ret |-> fetch_historical_data(supabase, range, start_date, end_date, store, now, q)]
    ELSE [args |-> <<range, None, None>>,
          ret |-> fetch_historical_data(supabase, range, None, None, store, now, q)]

\* line 503 and line 905: the fetch with the filter token alone
FetchForToken(range, q) ==
    [args |-> <<range, None, None>>,
     ret |-> fetch_historical_data(supabase, range, None, None, store, now, q)]

HistCallOf(f) == HistCall(f.args[1], f.args[2], f.args[3], f.ret)

\* create_graphs_section.apply_filter (lines 731-734) with refresh_graphs
ApplyFilter(s, time_range) ==
    /\ ShowsDashboard(s)
    /\ \E q \in Q :
         LET f == FetchForFilter(time_range, custom_start_date, custom_end_date, q)
         IN  /\ filter_range' = time_range
             /\ historical_data' = IF f.ret.raised THEN historical_data ELSE f.ret.result
             /\ event' = [op |-> "filter", escaped |-> f.ret.raised,
                          queries |-> Len(f.ret.queries), hist |-> Some(HistCallOf(f))]
    /\ UNCHANGED <<tasks, supabase, store, authenticated, custom_start_date, custom_end_date,
                   device_stats, sensor_data, stats_labels, page, now,
                   auth_history, stats_origin>>

\* a plausible slip in apply_custom_filter: no test of the two dates
ApplyCustomFilter_unchecked(s, start, end) ==
    /\ ShowsDashboard(s)
    /\ \E q \in Q :
         LET f == FetchForFilter("custom", start, end, q)
         IN  /\ filter_range' = "custom"
             /\ custom_start_date' = start
             /\ custom_end_date' = end
             /\ historical_data' = IF f.ret.raised THEN historical_data ELSE f.ret.result
             /\ event' = [op |-> "custom", missing |-> (start = None \/ end = None),
                          escaped |-> f.ret.raised,
                          queries |-> Len(f.ret.queries), hist |-> Some(HistCallOf(f))]
    /\ UNCHANGED <<tasks, supabase, store, authenticated, device_stats, sensor_data,
                   stats_labels, page, now, auth_history, stats_origin>>

\* create_graphs_section.apply_custom_filter (lines 736-744) with
\* refresh_graphs.  missing: one of the two dates was not set.
ApplyCustomFilter(s, start, end) ==
    /\ ShowsDashboard(s)
    /\ IF start # None /\ end # None
       THEN \E q \in Q :
              LET f == FetchForFilter("custom", start, end, q)
              IN  /\ filter_range' = "custom"
                  /\ custom_start_date' = start
                  /\ custom_end_date' = end
                  /\ historical_data' = IF f.ret.raised THEN historical_data
                                        ELSE f.ret.result
                  /\ event' = [op |-> "custom", missing |-> FALSE,
                               escaped |-> f.ret.raised,
                               queries |-> Len(f.ret.queries), hist |-> Some(HistCallOf(f))]
       ELSE /\ event' = [op |-> "custom", missing |-> TRUE, escaped |-> FALSE,
                         queries |-> 0, hist |-> None, notify |-> "warning"]
            /\ UNCHANGED <<filter_range, custom_start_date, custom_end_date,
                           historical_data>>
    /\ UNCHANGED <<tasks, supabase, store, authenticated, device_stats, sensor_data,
                   stats_labels, page, now, auth_history, stats_origin>>

\* create_graphs_section.export_data (lines 714-728) with export_to_csv up
\* to the choice of the frame; the file itself is Encode of that frame and
\* leaves the program with ui.download.  downloaded: ui.download ran;
\* series: the rows of each series the fetch returned.
ExportData(s, data_type) ==
    /\ ShowsDashboard(s)
    /\ \E q \in Q :
         LET f == FetchForToken(filter_range, q)
             choice == IF f.ret.raised THEN None
                       ELSE ExportChoice(data_type, f.ret.result)
         IN  event' = [op |-> "export", escaped |-> f.ret.raised,
                       queries |-> Len(f.ret.queries),
                       hist |-> Some(HistCallOf(f)),
                       data_type |-> data_type,
                       series |-> [temperature |-> Len(Get(f.ret.result, "temperature_history", <<>>)),
                                   humidity |-> Len(Get(f.ret.result, "humidity_history", <<>>))],
                       downloaded |-> choice # None,
                       notify |-> IF choice # None THEN "positive" ELSE "warning"]
    /\ UNCHANGED <<tasks, supabase, store, authenticated, page, now, auth_history>>
    /\ UNCHANGED data_vars

\* where the pair in device_stats comes from after a fetch_device_stats call
\* that assigned the fields `wrote`:
\*   "constructor"  both fields are those of __init__
\*   "call"         both fields were assigned by the same call
\*   "partial"      active_sensors by a call, data_points_today by __init__
\*   "mixed"        active_sensors by a call, data_points_today by an earlier call
OriginAfter(origin, wrote) ==
    IF wrote = StatFields THEN "call"
    ELSE IF wrote = {} THEN origin
    ELSE IF origin \in {"constructor", "partial"} THEN "partial"
    ELSE "mixed"

\* what refresh_data (lines 882-898) and setup_dashboard (lines 900-905)
\* have in common: the three fetches in order, each skipped once an
\* exception has left an earlier one, then update_stats_display
LoadAll(op, f, stats, latest) ==
    LET ran_latest == ~stats.raised
        ran_hist == ran_latest /\ ~latest.raised
        completed == ran_hist /\ ~f.ret.raised
    IN  /\ device_stats' = stats.device_stats
        /\ stats_origin' = OriginAfter(stats_origin, stats.wrote)
        /\ sensor_data' = IF ran_latest THEN latest.sensor_data ELSE sensor_data
        /\ historical_data' = IF completed THEN f.ret.result ELSE historical_data
        /\ stats_labels' = IF completed THEN stats.device_stats ELSE stats_labels
        /\ event' = [op |-> op, escaped |-> ~completed,
                     queries |-> Len(stats.queries)
                                 + (IF ran_latest THEN Len(latest.queries) ELSE 0)
                                 + (IF ran_hist THEN Len(f.ret.queries) ELSE 0),
                     stats_failed |-> stats.failed,
                     latest_failed |-> ran_latest /\ latest.failed,
                     hist |-> IF ran_hist THEN Some(HistCallOf(f)) ELSE None]

\* refresh_dashboard (lines 1010-1018), run by the 30 second timer
RefreshDashboard(s) ==
    /\ page[s] = "dashboard"
    /\ \E q1 \in Q, q2 \in Q, q3 \in Q, q4 \in Q :
         LoadAll("refresh",
                 FetchForFilter(filter_range, custom_start_date, custom_end_date, q4),
                 fetch_device_stats(supabase, device_stats, store, now, q1, q2),
                 fetch_latest_sensor_data(supabase, sensor_data, store, now, q3))
    /\ UNCHANGED <<tasks, supabase, store, authenticated, filter_range, custom_start_date,
                   custom_end_date, page, now, auth_history>>

\* the click handler of the 'Refresh Data' button: the one the constructor
\* registered at line 963, lambda: None.  Line 984 assigns refresh_dashboard
\* to the attribute on_click of the button object, which registers nothing.
RefreshButtonHandler == "lambda: None"

\* a click on 'Refresh Data' (lines 963 and 984)
ClickRefreshButton(s) ==
    /\ page[s] = "dashboard"
    /\ IF RefreshButtonHandler = "refresh_dashboard"
       THEN \E q1 \in Q, q2 \in Q, q3 \in Q, q4 \in Q :
              LoadAll("click_refresh",
                      FetchForFilter(filter_range, custom_start_date, custom_end_date, q4),
                      fetch_device_stats(supabase, device_stats, store, now, q1, q2),
                      fetch_latest_sensor_data(supabase, sensor_data, store, now, q3))
       ELSE /\ event' = [op |-> "click_refresh", escaped |-> FALSE, queries |-> 0]
            /\ UNCHANGED <<device_stats, stats_origin, sensor_data, historical_data,
                           stats_labels>>
    /\ UNCHANGED <<tasks, supabase, store, authenticated, filter_range, custom_start_date,
                   custom_end_date, page, now, auth_history>>

\* show_dashboard.initialize (lines 987-994), run once after the page is shown
Initialize(s) ==
    /\ page[s] = "loading"
    /\ \E q1 \in Q, q2 \in Q, q3 \in Q, q4 \in Q :
         LoadAll("initialize",
                 FetchForToken(filter_range, q4),
                 fetch_device_stats(supabase, device_stats, store, now, q1, q2),
                 fetch_latest_sensor_data(supabase, sensor_data, store, now, q3))
    /\ page' = [page EXCEPT ![s] = "dashboard"]
    /\ UNCHANGED <<tasks, supabase, store, authenticated, filter_range, custom_start_date,
                   custom_end_date, now, auth_history>>

\* the period of the refresh timer, in seconds
RefreshPeriod == 30

\* time passes
Tick ==
    /\ now < Now0 + MaxTicks * RefreshPeriod
    /\ now' = now + RefreshPeriod
    /\ UNCHANGED <<tasks, supabase, store, authenticated, page, event, auth_history>>
    /\ UNCHANGED data_vars

\* the values of the two date fields when Apply is clicked
StartInputs == {None} \cup {Some(d) : d \in StartDates}
EndInputs == {None} \cup {Some(d) : d \in EndDates}

\* the session of the operator who works with the dashboard
Operator == "s1"

\* One browser session and every handler of its page, at one clock reading
\* (the handlers take no time).
Next ==
    \/ MainPage(Operator)
    \/ \E p \in Passwords : HandleLogin(Operator, DASHBOARD_USER, p)
    \/ HandleLogout(Operator)
    \/ \E r \in Tokens \ {"custom"} : ApplyFilter(Operator, r)
    \/ \E a \in StartInputs, b \in EndInputs : ApplyCustomFilter(Operator, a, b)
    \/ \E k \in DataTypes : ExportData(Operator, k)
    \/ RefreshDashboard(Operator)
    \/ ClickRefreshButton(Operator)
    \/ Initialize(Operator)

Spec == Init /\ [][Next]_vars

\* Several browser sessions on the one process: page requests, logins,
\* logouts and the initial load of each dashboard page.
NextShared ==
    \/ \E s \in Sessions : MainPage(s)
    \/ \E s \in Sessions, u \in Usernames, p \in Passwords : HandleLogin(s, u, p)
    \/ \E s \in Sessions : HandleLogout(s)
    \/ \E s \in Sessions : Initialize(s)

SpecShared == Init /\ [][NextShared]_vars

\* The same sessions with two of the filter controls: the 7 day button and
\* Apply with both dates set.
NextSessions ==
    \/ NextShared
    \/ \E s \in Sessions : ApplyFilter(s, "7d")
    \/ \E s \in Sessions, a \in StartInputs \ {None}, b \in EndInputs \ {None} :
         ApplyCustomFilter(s, a, b)

SpecSessions == Init /\ [][NextSessions]_vars

\* The same session without a store client, with the clock advancing
\* between its events.
InitDemo == Init /\ ~supabase

NextDemo == Next \/ Tick

SpecDemo == InitDemo /\ [][NextDemo]_vars

-----------------------------------------------------------------------------
(* The event loop: the filter, export and refresh handlers cut at their awaits *)

\* the coroutines the handlers await
Callees == {"fetch_device_stats", "fetch_latest_sensor_data", "fetch_historical_data"}

\* a plausible change of the data access layer: the store is queried through
\* an asynchronous client, so each fetch hands the loop back while it waits
Suspends_at_query(callee) == callee \in Callees

\* whether awaiting the coroutine hands control back to the event loop: none
\* of the three awaits anything itself, its store calls are synchronous
Suspends(callee) == FALSE

\* the coroutine a started handler runs next
CalleeAt(pc) ==
    IF pc = "stats" THEN "fetch_device_stats"
    ELSE IF pc = "latest" THEN "fetch_latest_sensor_data"
    ELSE "fetch_historical_data"

\* a started handler: which one, the coroutine it is in, the arguments it
\* calls fetch_historical_data with (None until it has evaluated them), the
\* data type of an export, and whether it has handed the loop back
Task(op, pc, args, data_type) ==
    [op |-> op, pc |-> pc, args |-> args, data_type |-> data_type,
     parked |-> Suspends(CalleeAt(pc))]

\* lines 759-766 and 889-896: the arguments of the fetch for the filter held
ArgsForFilter ==
    IF filter_range = "custom"
    THEN <<filter_range, custom_start_date, custom_end_date>>
    ELSE <<filter_range, None, None>>

\* no started handler holds the loop: every one of them waits in an await
LoopFree == \A i \in DOMAIN tasks : tasks[i].parked

\* the loop takes the next UI or timer event
CanDispatch == LoopFree /\ Len(tasks) < MaxInFlight

RemoveAt(seq, i) == [k \in 1..(Len(seq) - 1) |-> IF k < i THEN seq[k] ELSE seq[k + 1]]

loop_frame == <<supabase, store, authenticated, page, now, auth_history>>

\* apply_filter up to the await inside refresh_graphs (lines 731-734, 759-766)
StartFilter(s, time_range) ==
    /\ ShowsDashboard(s)
    /\ CanDispatch
    /\ filter_range' = time_range
    /\ tasks' = Append(tasks, Task("filter", "hist", <<time_range, None, None>>, "none"))
    /\ event' = [op |-> "start", handler |-> "filter"]
    /\ UNCHANGED <<custom_start_date, custom_end_date, device_stats, sensor_data,
                   historical_data, stats_labels, stats_origin>>
    /\ UNCHANGED loop_frame

\* apply_custom_filter up to the await inside refresh_graphs (lines 736-744)
StartCustomFilter(s, start, end) ==
    /\ ShowsDashboard(s)
    /\ CanDispatch
    /\ IF start # None /\ end # None
       THEN /\ filter_range' = "custom"
            /\ custom_start_date' = start
            /\ custom_end_date' = end
            /\ tasks' = Append(tasks, Task("custom", "hist", <<"custom", start, end>>, "none"))
            /\ event' = [op |-> "start", handler |-> "custom"]
       ELSE /\ event' = [op |-> "custom", missing |-> TRUE, escaped |-> FALSE,
                         queries |-> 0, hist |-> None, notify |-> "warning"]
            /\ UNCHANGED <<filter_range, custom_start_date, custom_end_date, tasks>>
    /\ UNCHANGED <<device_stats, sensor_data, historical_data, stats_labels, stats_origin>>
    /\ UNCHANGED loop_frame

\* export_data up to the await inside export_to_csv (lines 714-717, 499-503)
StartExport(s, data_type) ==
    /\ ShowsDashboard(s)
    /\ CanDispatch
    /\ tasks' = Append(tasks, Task("export", "hist", <<filter_range, None, None>>, data_type))
    /\ event' = [op |-> "start", handler |-> "export"]
    /\ UNCHANGED data_vars
    /\ UNCHANGED loop_frame

\* refresh_dashboard, run by the 30 second timer, up to its first await
\* (lines 1010-1011, 882-885)
StartRefresh(s) ==
    /\ page[s] = "dashboard"
    /\ CanDispatch
    /\ tasks' = Append(tasks, Task("refresh", "stats", None, "none"))
    /\ event' = [op |-> "start", handler |-> "refresh"]
    /\ UNCHANGED data_vars
    /\ UNCHANGED loop_frame

\* the piece of a started handler from the coroutine it is in to its next
\* await, or to its end.  The loop runs a handler that has not handed it
\* back, and any waiting handler once the loop is free.
RunTask(i) ==
    /\ i \in DOMAIN tasks
    /\ \A j \in DOMAIN tasks : j # i => tasks[j].parked
    /\ LET task == tasks[i]
       IN  \/ /\ task.pc = "stats"
              /\ \E q1 \in Q, q2 \in Q :
                   LET stats == fetch_device_stats(supabase, device_stats, store, now, q1, q2)
                   IN  /\ device_stats' = stats.device_stats
                       /\ stats_origin' = OriginAfter(stats_origin, stats.wrote)
              /\ tasks' = [tasks EXCEPT ![i] = Task(task.op, "latest", None, "none")]
              /\ event' = [op |-> "piece", handler |-> task.op, of |-> task.pc]
              /\ UNCHANGED <<filter_range, custom_start_date, custom_end_date,
                             sensor_data, historical_data, stats_labels>>
           \/ /\ task.pc = "latest"
              /\ \E q \in Q :
                   sensor_data' = fetch_latest_sensor_data(supabase, sensor_data,
                                                           store, now, q).sensor_data
              /\ tasks' = [tasks EXCEPT ![i] = Task(task.op, "hist", ArgsForFilter, "none")]
              /\ event' = [op |-> "piece", handler |-> task.op, of |-> task.pc]
              /\ UNCHANGED <<filter_range, custom_start_date, custom_end_date,
                             device_stats, historical_data, stats_labels, stats_origin>>
           \/ /\ task.pc = "hist"
              /\ \E q \in Q :
                   LET ret == fetch_historical_data(supabase, task.args[1], task.args[2],
                                                    task.args[3], store, now, q)
                   IN  IF task.op = "export"
                       THEN /\ event' = [op |-> "piece", handler |-> task.op, of |-> task.pc,
                                         downloaded |->
                                            ExportChoice(task.data_type, ret.result) # None]
                            /\ UNCHANGED <<historical_data, stats_labels>>
                       ELSE /\ event' = [op |-> "piece", handler |-> task.op, of |-> task.pc]
                            /\ historical_data' = ret.result
                            /\ stats_labels' = IF task.op = "refresh" THEN device_stats
                                               ELSE stats_labels
              /\ tasks' = RemoveAt(tasks, i)
              /\ UNCHANGED <<filter_range, custom_start_date, custom_end_date,
                             device_stats, sensor_data, stats_origin>>
    /\ UNCHANGED loop_frame

\* One browser session on the event loop: the page request, the login and
\* the initial load when the loop is free, and the handlers in pieces.
NextLoop ==
    \/ LoopFree /\ MainPage(Operator)
    \/ LoopFree /\ HandleLogin(Operator, DASHBOARD_USER, DASHBOARD_PASS)
    \/ LoopFree /\ tasks = <<>> /\ Initialize(Operator)
    \/ \E r \in Tokens \ {"custom"} : StartFilter(Operator, r)
    \/ \E a \in StartInputs, b \in EndInputs : StartCustomFilter(Operator, a, b)
    \/ \E k \in DataTypes : StartExport(Operator, k)
    \/ StartRefresh(Operator)
    \/ \E i \in 1..MaxInFlight : RunTask(i)

SpecLoop == Init /\ [][NextLoop]_vars

-----------------------------------------------------------------------------
(* The methods of SensorDashboard called directly *)

\* tokens no button of the page sends
OtherTokens == {"1y", "all"}

\* how long ago, in seconds, a sampled reading was taken (negative: ahead of
\* the clock)
Ages == {-Day, -Hour, -90, -Minute, 0, 59, 60, 3599, 3600,
         StaleHours * Hour, StaleHours * Hour + 1,
         7 * Hour, 7 * Hour + 1, Day - 1, Day, 2 * Day}

\* timestamp strings of readings taken around clock reading t: the Cyprus
\* wall clock of the moment each was taken, in every spelling, or none
TimestampInputs(t) ==
    {Ts(k, t + CyprusOffset - a) : k \in ZeroMarked \cup {"naive", "+03:00"}, a \in Ages}
        \cup {Ts("missing", 0), Ts("empty", 0), Ts("unparsable", 0)}

call_vars == <<tasks, supabase, store, authenticated, page, now, auth_history>>

CallFetchHistorical(time_range, start_date, end_date) ==
    /\ \E q \in Q :
         event' = [op |-> "fetch_historical_data", time_range |-> time_range,
                   start_date |-> start_date, end_date |-> end_date,
                   at |-> now, q |-> q,
                   ret |-> fetch_historical_data(supabase, time_range, start_date,
                                                 end_date, store, now, q)]
    /\ UNCHANGED call_vars
    /\ UNCHANGED data_vars

CallFormatTimestamp(ts) ==
    /\ event' = [op |-> "format_timestamp", ts |-> ts, at |-> now,
                 ret |-> format_timestamp(ts, now)]
    /\ UNCHANGED call_vars
    /\ UNCHANGED data_vars

CallIsDataStale(ts, hours) ==
    /\ event' = [op |-> "is_data_stale", ts |-> ts, hours |-> hours, at |-> now,
                 ret |-> is_data_stale(ts, hours, now)]
    /\ UNCHANGED call_vars
    /\ UNCHANGED data_vars

CallExportToCsv(data_type, time_range) ==
    /\ \E q \in Q :
         event' = [op |-> "export_to_csv", data_type |-> data_type,
                   filter_range |-> time_range, at |-> now, q |-> q,
                   ret |-> export_to_csv(supabase, data_type, time_range, store, now, q)]
    /\ UNCHANGED call_vars
    /\ UNCHANGED data_vars

\* the devices of the rows handed to a chart builder
ChartDevices == {"Living Room", "Kitchen"}

\* the lists of at most MaxRows hourly rows over those devices, in timestamp
\* order, each row with a value of its own
ChartInputs(field) ==
    UNION {{[i \in 1..n |-> HistoryRow(d[i], Aware(Now0 - (n - i) * Hour, 0), field, 20 + i)] :
                d \in [1..n -> ChartDevices]} : n \in 0..MaxRows}

CallCreateGraph(field, data, time_range) ==
    /\ event' = [op |-> "create_graph", field |-> field, data |-> data,
                 time_range |-> time_range,
                 ret |-> IF field = "temperature"
                         THEN create_temperature_graph(data, time_range)
                         ELSE create_humidity_graph(data, time_range)]
    /\ UNCHANGED call_vars
    /\ UNCHANGED data_vars

\* the lists of cards that name each device of a set once, in every order
CardLists(unit, base) ==
    UNION {{[i \in 1..n |-> SensorCard(d[i], Fmt1f(base + i), unit, "Just now", FALSE)] :
                d \in {e \in [1..n -> ChartDevices] :
                          \A i, j \in 1..n : e[i] = e[j] => i = j}} :
           n \in 0..Cardinality(ChartDevices)}

\* the latest data the summary is built from: the demonstration cards, and
\* every pair of such lists
SummaryInputs ==
    {DemoSensorData}
        \cup {[temperature_sensors |-> t, humidity_sensors |-> h] :
                 t \in CardLists("C", 20), h \in CardLists("%", 40)}

CallCreateSummaryChart(sensor) ==
    /\ event' = [op |-> "create_sensor_summary_chart", sensor_data |-> sensor,
                 ret |-> create_sensor_summary_chart(sensor)]
    /\ UNCHANGED call_vars
    /\ UNCHANGED data_vars

NextCalls ==
    \/ \E r \in Tokens \cup OtherTokens, a \in StartInputs, b \in EndInputs :
         CallFetchHistorical(r, a, b)
    \/ \E ts \in TimestampInputs(Now0) : CallFormatTimestamp(ts)
    \/ \E ts \in TimestampInputs(Now0) : CallIsDataStale(ts, StaleHours)
    \/ \E k \in DataTypes, r \in Tokens : CallExportToCsv(k, r)
    \/ \E f \in {"temperature", "humidity"} :
         \E data \in ChartInputs(f) : CallCreateGraph(f, data, filter_range)
    \/ \E sensor \in SummaryInputs : CallCreateSummaryChart(sensor)
    \/ Tick

SpecCalls == Init /\ [][NextCalls]_vars

-----------------------------------------------------------------------------
(* Authentication and the single page *)

\* C1: authenticate(username, password) is true exactly for the configured
\* user with the configured password, and the authenticated flag goes from
\* false to true only in a login attempt for which authenticate returned true.
C1_AuthenticateExact ==
    /\ [](event.op = "login" =>
            (event.result <=> (event.username = "admin" /\ event.password = "password")))
    /\ [][(~authenticated /\ authenticated') =>
            (event'.op = "login" /\ event'.result)]_vars

\* a login with a wrong password was refused in one session after another
\* session had logged in and out again, so the flag stayed false
C1_Witness ==
    /\ event.op = "login"
    /\ event.username = "admin"
    /\ event.password # "password"
    /\ ~event.result
    /\ ~authenticated
    /\ auth_history = "logout"

\* C2: a request for the page renders the dashboard exactly when the last
\* authentication change was a successful login (a login has happened and
\* no logout since), and the login form otherwise.
C2_PageFollowsLogin ==
    event.op = "page" =>
        /\ event.rendered \in {"dashboard", "login"}
        /\ event.rendered = "dashboard" <=> event.history = "login"

\* a page request after a logout rendered the login form, in a session
\* whose page still showed the dashboard
C2_Witness ==
    /\ event.op = "page"
    /\ event.history = "logout"
    /\ event.rendered = "login"
    /\ \E s \in Sessions : s # event.session /\ page[s] = "dashboard"

-----------------------------------------------------------------------------
(* The dashboard handlers against a store whose queries can fail *)

\* the handlers that fetch
HandlerOps == {"filter", "custom", "export", "refresh", "initialize"}

\* the last handler made a historical fetch
Fetched(e) == e.op \in HandlerOps /\ e.hist # None

\* a store query of the last handler failed
Failed(e) ==
    \/ Fetched(e) /\ e.hist[1].failed
    \/ e.op \in {"refresh", "initialize"} /\ (e.stats_failed \/ e.latest_failed)

\* C3: for 12h, 24h, 7d and 30d the resolved interval ends now and is 12
\* hours, 24 hours, 7 days and 30 days long; for every supported token,
\* custom with the operator's dates included, until is not before since.
C3_ResolvedIntervals ==
    (Fetched(event) /\ event.hist[1].range # None) =>
        LET h == event.hist[1]
            r == h.range[1]
            length == r.until.utc - r.since.utc
        IN  /\ h.time_range = "12h" => (r.until.utc = h.at /\ length = 12 * 3600)
            /\ h.time_range = "24h" => (r.until.utc = h.at /\ length = 24 * 3600)
            /\ h.time_range = "7d" => (r.until.utc = h.at /\ length = 7 * 86400)
            /\ h.time_range = "30d" => (r.until.utc = h.at /\ length = 30 * 86400)
            /\ h.time_range \in Tokens => r.since.utc <= r.until.utc

\* the cards of sensor_data of one kind
Cards(kind) == Get(sensor_data, kind, <<>>)

\* C6: after a failed fetch_device_stats the stats held and shown are zero,
\* after a failed fetch_latest_sensor_data both sensor lists are empty, and
\* after a failed fetch_historical_data the series held are empty, whatever
\* earlier calls produced.
C6_FailedCallGivesDefault ==
    /\ event.op \in {"refresh", "initialize"} =>
          /\ event.stats_failed => (device_stats = ZeroStats /\ stats_labels = ZeroStats)
          /\ event.latest_failed =>
                (Empty(Cards("temperature_sensors")) /\ Empty(Cards("humidity_sensors")))
    /\ (Fetched(event) /\ event.op # "export" /\ event.hist[1].failed) =>
          historical_data = EmptyDict

\* the reading of the latest view a card was made from has no timestamp
\* Python can parse
NoUsableTimestamp(card) ==
    \E j \in DOMAIN store.latest :
        /\ store.latest[j].device_name = card.name
        /\ store.latest[j].timestamp.kind \in {"missing", "empty", "unparsable"}

\* C7: no exception leaves a handler whatever the store queries and the
\* timestamps do; a card whose reading has a missing or unparsable timestamp
\* is labelled "Unknown" and stale; and after a failure the session still
\* shows the dashboard page, whose refresh, filter and export handlers have
\* no other guard.
C7_NoFailureEscapes ==
    /\ event.op \in HandlerOps => ~event.escaped
    /\ supabase =>
          \A kind \in {"temperature_sensors", "humidity_sensors"} :
              \A i \in DOMAIN Cards(kind) :
                  NoUsableTimestamp(Cards(kind)[i]) =>
                      (Cards(kind)[i].timestamp = "Unknown" /\ Cards(kind)[i].is_stale)
    /\ Failed(event) => ShowsDashboard(Operator)

\* an export delivered a file after a historical fetch had failed, while
\* the cards of the readings without a usable timestamp are on display
C7_Witness ==
    /\ supabase
    /\ page[Operator] = "dashboard"
    /\ historical_data = EmptyDict
    /\ event.op = "export" /\ event.downloaded
    /\ \E i \in DOMAIN Cards("temperature_sensors") :
          NoUsableTimestamp(Cards("temperature_sensors")[i])

\* C8: the pair in device_stats never has active_sensors from one
\* fetch_device_stats call and data_points_today from an earlier call.
C8_StatsFromOneCall == stats_origin # "mixed"

-----------------------------------------------------------------------------
(* fetch_historical_data and is_data_stale called directly *)

\* the call falls to the else branches: a token outside the supported
\* ones, or custom without both dates
Defaulted(e) ==
    \/ e.time_range \notin {"12h", "24h", "7d", "30d", "custom"}
    \/ e.time_range = "custom" /\ (e.start_date = None \/ e.end_date = None)

\* C4: with a token outside {12h, 24h, 7d, 30d, custom}, or with custom
\* but not both dates, fetch_historical_data raises nothing and resolves
\* the interval (without a store: returns the series) that the token 24h
\* gives at the same moment with the same store answer: 24 hours up to now,
\* 24 hourly points.
C4_UnknownTokenIs24h ==
    (event.op = "fetch_historical_data" /\ Defaulted(event)) =>
        LET ret == event.ret
            as24h == fetch_historical_data(supabase, "24h", None, None, store,
                                           event.at, event.q)
        IN  /\ ~ret.raised
            /\ ret.failed = as24h.failed
            /\ ret.range = as24h.range
            /\ ret.response = as24h.response
            /\ ret.result = as24h.result
            /\ supabase => /\ ret.range[1].until.utc = event.at
                           /\ ret.range[1].since.utc = event.at - 24 * 3600
            /\ ~supabase => /\ Len(ret.result.temperature_history) = 24
                            /\ Len(ret.result.humidity_history) = 24

\* an unknown token was passed together with two dates, after the clock
\* had advanced
C4_Witness ==
    /\ event.op = "fetch_historical_data"
    /\ event.time_range = "1y"
    /\ event.start_date # None /\ event.end_date # None
    /\ event.at > Now0
    /\ ~event.ret.raised

\* the query of the call returned this row of the store
ReturnedRow(e, row) == \E i \in DOMAIN e.ret.response : e.ret.response[i] = row

\* the instant the store holds for the row lies in [since, until]
InClosed(row, range) ==
    /\ range.since.utc <= StoreInstant(row.timestamp)
    /\ StoreInstant(row.timestamp) <= range.until.utc

CorrectedInstant(ts) == ts.wall - 3 * 3600

\* C10: for a timestamp that carries the zero-offset marker is_data_stale
\* is true exactly when the clock is more than the threshold past the
\* corrected instant, and false at the threshold itself.
C10_StaleByCorrectedAge ==
    (event.op = "is_data_stale" /\ event.ts.kind \in {"+00:00", "+00"}) =>
        /\ CorrectedInstant(event.ts) = StripAndLocalize(event.ts).dt.utc
        /\ event.ret <=> (event.at - CorrectedInstant(event.ts) > event.hours * 3600)

-----------------------------------------------------------------------------
(* The dashboard without a store client *)

\* the number of hourly points the demo branch gives for a token
ExpectedHours(token) ==
    IF token = "12h" THEN 12 ELSE IF token = "7d" THEN 168
    ELSE IF token = "30d" THEN 720 ELSE 24

\* a series of `hours` hourly points of "Living Room" ending one hour
\* before `at`, its values `base` plus the position modulo `cycle`
HourlySeries(series, field, hours, at, base, cycle) ==
    /\ Len(series) = hours
    /\ \A i \in 1..hours :
          /\ series[i].device_name = "Living Room"
          /\ series[i][field] = base + ((i - 1) % cycle)
          /\ series[i].timestamp.utc = at - (hours - i + 1) * 3600

\* the last handler replaced the series held in historical_data
HeldSeriesOf(e) == Fetched(e) /\ e.op # "export"

\* what the same call returned at the start of the run
FirstCall(h) ==
    fetch_historical_data(FALSE, h.time_range, h.start_date, h.end_date,
                          NoStore, Now0, "ok").result

\* C9 as claimed: without a store the three fetches give non-empty
\* synthetic results that are the same on every call with the same
\* arguments, and no handler issues a store query.
C9_SameOnEveryCall ==
    ~supabase =>
        /\ event.op \in HandlerOps => event.queries = 0
        /\ event.op \in {"refresh", "initialize"} =>
              /\ device_stats = [active_sensors |-> 12, data_points_today |-> 2847]
              /\ sensor_data = DemoSensorData
        /\ HeldSeriesOf(event) =>
              /\ ~Empty(historical_data.temperature_history)
              /\ ~Empty(historical_data.humidity_history)
              /\ historical_data = FirstCall(event.hist[1])

\* C9 as amended: without a store fetch_device_stats and
\* fetch_latest_sensor_data give the same non-empty result on every call;
\* fetch_historical_data gives, for every token, one point per hour with
\* the same length, device and values on every call, stamped with the
\* hours before the moment of the call; and no handler issues a store query.
C9_DemoData ==
    ~supabase =>
        /\ event.op \in HandlerOps => event.queries = 0
        /\ event.op \in {"refresh", "initialize"} =>
              /\ device_stats = [active_sensors |-> 12, data_points_today |-> 2847]
              /\ sensor_data = DemoSensorData
              /\ ~Empty(sensor_data.temperature_sensors)
              /\ ~Empty(sensor_data.humidity_sensors)
        /\ HeldSeriesOf(event) =>
              LET h == event.hist[1]
                  hours == ExpectedHours(h.time_range)
              IN  /\ HourlySeries(historical_data.temperature_history, "temperature",
                                  hours, h.at, 22, 4)
                  /\ HourlySeries(historical_data.humidity_history, "humidity",
                                  hours, h.at, 45, 10)

\* the 30 day series was fetched again after the clock had advanced, and a
\* refresh had loaded the demo stats and cards
C9_Witness ==
    /\ ~supabase
    /\ event.op = "filter"
    /\ event.hist[1].time_range = "30d"
    /\ event.hist[1].at > Now0
    /\ Len(historical_data.temperature_history) = 720
    /\ device_stats.active_sensors = 12
    /\ sensor_data = DemoSensorData

-----------------------------------------------------------------------------
(* format_timestamp called directly *)

\* the call was given a string format_timestamp can correct: the zero
\* marker in either spelling, or no offset
Correctable(e) == e.op = "format_timestamp" /\ e.ts.kind \in {"+00:00", "+00", "naive"}

\* whole seconds from the corrected instant of the call's timestamp to the
\* clock reading of the call
DeltaOf(e) == e.at - CorrectedInstant(e.ts)

\* C11: for a delta d >= 0 format_timestamp returns "Just now" when d < 60,
\* "N min ago" with N = floor(d/60) when 60 <= d < 3600, "N hr ago" with
\* N = floor(d/3600) when 3600 <= d < 86400, "N days ago" with
\* N = floor(d/86400) when d >= 86400.
C11_PastBuckets ==
    (Correctable(event) /\ DeltaOf(event) >= 0) =>
        LET d == DeltaOf(event)
        IN  /\ d < 60 => event.ret = "Just now"
            /\ (60 <= d /\ d < 3600) => event.ret = ToString(d \div 60) \o " min ago"
            /\ (3600 <= d /\ d < 86400) => event.ret = ToString(d \div 3600) \o " hr ago"
            /\ d >= 86400 => event.ret = ToString(d \div 86400) \o " days ago"

\* a reading exactly one minute old was labelled "1 min ago", not
\* "Just now"
C11_Witness ==
    /\ Correctable(event)
    /\ DeltaOf(event) = 60
    /\ event.ret = "1 min ago"

\* C12: for a timestamp m seconds ahead of now format_timestamp picks the
\* bucket and the number it picks for one m seconds behind, with "from now"
\* for "ago"; 24 hours or more ahead is given in days from now.
C12_FutureMirrorsPast ==
    (Correctable(event) /\ DeltaOf(event) < 0) =>
        LET m == -DeltaOf(event)
        IN  /\ m < 60 => event.ret = "Just now"
            /\ (60 <= m /\ m < 3600) => event.ret = ToString(m \div 60) \o " min from now"
            /\ (3600 <= m /\ m < 86400) => event.ret = ToString(m \div 3600) \o " hr from now"
            /\ m >= 86400 => event.ret = ToString(m \div 86400) \o " days from now"

\* the labels of each bucket, in the order just-now < minutes < hours < days
Labels(unit) == {ToString(n) \o " " \o unit \o " ago" : n \in 0..59}
                    \cup {ToString(n) \o " " \o unit \o " from now" : n \in 0..59}

Bucket(label) ==
    IF label = "Just now" THEN 0
    ELSE IF label \in Labels("min") THEN 1
    ELSE IF label \in Labels("hr") THEN 2
    ELSE IF label \in Labels("days") THEN 3
    ELSE -1

\* C13 as claimed: when format_timestamp is called again with the same
\* timestamp, at a clock reading that is not earlier, the bucket of its
\* label is not smaller than that of the call before.
C13_BucketNeverShrinks ==
    [][(Correctable(event) /\ Correctable(event') /\ event'.ts = event.ts
            /\ event.at <= event'.at)
        => Bucket(event.ret) <= Bucket(event'.ret)]_vars

\* C13 as amended: the same, for a timestamp that is not ahead of the
\* clock at the first of the two calls.
C13_PastBucketNeverShrinks ==
    [][(Correctable(event) /\ Correctable(event') /\ event'.ts = event.ts
            /\ event.at <= event'.at /\ DeltaOf(event) >= 0)
        => (/\ Bucket(event.ret) >= 0
            /\ Bucket(event.ret) <= Bucket(event'.ret))]_vars

\* a reading 59 seconds old, labelled "Just now" by the call before this
\* one, has been labelled again a timer period later, in minutes
C13_Witness ==
    /\ Correctable(event)
    /\ event.at > Now0
    /\ event.at - DeltaOf(event) = Now0 - 59
    /\ Bucket(event.ret) = 1

-----------------------------------------------------------------------------
(* The chart builders called directly *)

RECURSIVE TotalPoints(_)
\* the number of points of a sequence of traces
TotalPoints(traces) ==
    IF Len(traces) = 0 THEN 0
    ELSE Len(traces[1].x) + TotalPoints(Tail(traces))

\* the rows of the list up to row i that are of the device of row i
RankInDevice(data, i) ==
    Cardinality({j \in 1..i : data[j].device_name = data[i].device_name})

\* C14: for a non-empty list of rows a chart builder adds exactly one
\* series per device name of the list, every row is in the series of its
\* device at its rank among the rows of that device, and the series hold
\* as many points as the list has rows.
C14_OneSeriesPerDevice ==
    (event.op = "create_graph" /\ Len(event.data) > 0) =>
        LET data == event.data
            traces == event.ret.traces
        IN  /\ {traces[k].name : k \in DOMAIN traces}
                  = {data[i].device_name : i \in DOMAIN data}
            /\ \A k, l \in DOMAIN traces : traces[k].name = traces[l].name => k = l
            /\ \A i \in DOMAIN data :
                  \E k \in DOMAIN traces :
                      /\ traces[k].name = data[i].device_name
                      /\ RankInDevice(data, i) \in DOMAIN traces[k].x
                      /\ traces[k].x[RankInDevice(data, i)] = data[i].timestamp
                      /\ traces[k].y[RankInDevice(data, i)] = data[i][event.field]
            /\ \A k \in DOMAIN traces : Len(traces[k].x) = Len(traces[k].y)
            /\ TotalPoints(traces) = Len(data)

\* a list in which the rows of one device are split by a row of another
\* gave two series, of two points and of one
C14_Witness ==
    /\ event.op = "create_graph"
    /\ Len(event.data) = 3
    /\ event.data[1].device_name = event.data[3].device_name
    /\ event.data[1].device_name # event.data[2].device_name
    /\ Len(event.ret.traces) = 2
    /\ Len(event.ret.traces[1].x) = 2
    /\ Len(event.ret.traces[2].x) = 1

-----------------------------------------------------------------------------
(* The summary chart called directly *)

\* the names of a list of cards
NamesIn(cards) == {cards[i].name : i \in DOMAIN cards}

\* the number the summary is to show for a device from a list of cards
ValueIn(cards, name) ==
    IF name \in NamesIn(cards)
    THEN Float((CHOOSE c \in {cards[i] : i \in DOMAIN cards} : c.name = name).value)
    ELSE 0

\* C15: every device named in the temperature or the humidity list is in
\* the summary exactly once, with the temperature of its card, or 0 when it
\* has no temperature card, and the humidity of its card, or 0 when it has
\* no humidity card.
C15_SummaryJoin ==
    event.op = "create_sensor_summary_chart" =>
        LET temp == event.sensor_data.temperature_sensors
            hum == event.sensor_data.humidity_sensors
            ret == event.ret
        IN  /\ {ret.devices[k] : k \in DOMAIN ret.devices} = NamesIn(temp) \cup NamesIn(hum)
            /\ \A k, l \in DOMAIN ret.devices : ret.devices[k] = ret.devices[l] => k = l
            /\ DOMAIN ret.temperatures = DOMAIN ret.devices
            /\ DOMAIN ret.humidities = DOMAIN ret.devices
            /\ \A k \in DOMAIN ret.devices :
                  /\ ret.temperatures[k] = ValueIn(temp, ret.devices[k])
                  /\ ret.humidities[k] = ValueIn(hum, ret.devices[k])

\* the demonstration cards: the two devices with both cards, the one with
\* only a temperature and the one with only a humidity
C15_Witness ==
    /\ event.op = "create_sensor_summary_chart"
    /\ event.ret.devices = <<"Living Room", "Bedroom", "Kitchen", "Bathroom">>
    /\ event.ret.temperatures = <<225, 201, 242, 0>>
    /\ event.ret.humidities = <<450, 520, 0, 680>>

-----------------------------------------------------------------------------
(* The combined export *)

\* reading a number cell of a CSV back: the empty cell is a missing value
ReadNumber(text) ==
    IF text = "" THEN None ELSE Some(CHOOSE n \in 0..99 : ToString(n) = text)

\* the position of a column in the header, 0 when the header lacks it
ColumnOf(header, column) ==
    IF \E c \in DOMAIN header : header[c] = column
    THEN CHOOSE c \in DOMAIN header : header[c] = column
    ELSE 0

\* the rows read back from a CSV
ParseCsv(content) ==
    LET col(name) == ColumnOf(content.header, name)
        number(line, name) == IF col(name) = 0 THEN None ELSE ReadNumber(line[col(name)])
    IN  {[device_name |-> content.lines[i][col("device_name")],
          timestamp |-> content.lines[i][col("timestamp")],
          temperature |-> number(content.lines[i], "temperature"),
          humidity |-> number(content.lines[i], "humidity")] : i \in DOMAIN content.lines}

\* the value a series holds under a key, None when it has no row of that key
ValueUnder(series, field, key) ==
    IF \E i \in DOMAIN series : KeyOf(series[i]) = key
    THEN Some(series[CHOOSE i \in DOMAIN series : KeyOf(series[i]) = key][field])
    ELSE None

\* the rows a combined export of two series is to hold
JoinedRows(temp, hum) ==
    {[device_name |-> r.device_name,
      timestamp |-> WallOf(r.timestamp),
      temperature |-> ValueUnder(temp, "temperature", KeyOf(r)),
      humidity |-> ValueUnder(hum, "humidity", KeyOf(r))] :
        r \in {temp[i] : i \in DOMAIN temp} \cup {hum[i] : i \in DOMAIN hum}}

\* the keys of the two series
KeysOf(temp, hum) ==
    {KeyOf(temp[i]) : i \in DOMAIN temp} \cup {KeyOf(hum[i]) : i \in DOMAIN hum}

\* a combined export over two series that both have rows
CombinedExport(e) ==
    /\ e.op = "export_to_csv"
    /\ e.data_type = "all"
    /\ ~Empty(e.ret.fetched.ret.result)
    /\ ~Empty(e.ret.fetched.ret.result.temperature_history)
    /\ ~Empty(e.ret.fetched.ret.result.humidity_history)

\* C16: a combined export over a temperature and a humidity series that
\* both have rows gives a file with one line per (timestamp, device_name)
\* key of either series, and the rows read back from the file are the rows
\* of the outer join: both values under a key both series have, an empty
\* cell for the value of the series that lacks the key.
C16_CombinedExportRoundTrip ==
    CombinedExport(event) =>
        LET temp == event.ret.fetched.ret.result.temperature_history
            hum == event.ret.fetched.ret.result.humidity_history
        IN  /\ event.ret.result # None
            /\ Len(event.ret.result[1].content.lines) = Cardinality(KeysOf(temp, hum))
            /\ ParseCsv(event.ret.result[1].content) = JoinedRows(temp, hum)

\* a file with a line of a temperature alone, one of a humidity alone and
\* one of both
C16_Witness ==
    /\ CombinedExport(event)
    /\ event.ret.result # None
    /\ LET rows == ParseCsv(event.ret.result[1].content)
       IN  /\ \E r \in rows : r.temperature # None /\ r.humidity = None
           /\ \E r \in rows : r.temperature = None /\ r.humidity # None
           /\ \E r \in rows : r.temperature # None /\ r.humidity # None

-----------------------------------------------------------------------------
(* Export without data *)

\* the export handler found the series it was asked for without rows
NothingToExport(e) ==
    /\ e.op = "export"
    /\ \/ e.data_type = "temperature" /\ e.series.temperature = 0
       \/ e.data_type = "humidity" /\ e.series.humidity = 0
       \/ e.data_type = "all" /\ e.series.temperature = 0 /\ e.series.humidity = 0

\* C17: an export whose series has no rows, because the fetch returned
\* nothing or because the series asked for is empty, lets no exception out
\* of export_to_csv, starts no download and notifies a warning.
C17_NoDataNoDownload ==
    NothingToExport(event) =>
        /\ ~event.escaped
        /\ ~event.downloaded
        /\ event.notify = "warning"

\* a temperature export over a fetch that returned humidity rows alone
C17_Witness ==
    /\ NothingToExport(event)
    /\ event.data_type = "temperature"
    /\ event.series.humidity > 0
    /\ ~event.hist[1].failed
    /\ ~event.downloaded
    /\ event.notify = "warning"

-----------------------------------------------------------------------------
(* The interval of an export *)

\* the interval the charts are fetched with under the filter held now
\* (refresh_graphs, lines 759-766)
ActiveInterval ==
    ResolveRange(filter_range, custom_start_date, custom_end_date, now)

\* C18: an export queries the interval the active filter resolves to at
\* export time; with the custom filter active that is the interval of the
\* stored custom start and end dates, the one the charts are fetched with.
C18_ExportCoversActiveFilter ==
    (event.op = "export" /\ event.hist[1].range # None) =>
        /\ event.hist[1].time_range = filter_range
        /\ event.hist[1].at = now
        /\ event.hist[1].range[1] = ActiveInterval

-----------------------------------------------------------------------------
(* What changes the filter *)

\* the filter token and the two custom dates
filter_vars == <<filter_range, custom_start_date, custom_end_date>>

\* C19: the filter is 24h, without custom dates, when the program starts;
\* a step of a handler other than the two filter controls (page request,
\* login attempt, logout, export, refresh, initial load) leaves the token
\* and the custom dates as they are, and a custom-filter step with a date
\* missing leaves the token, the dates and the series held as they are.
C19_OnlyFilterControlsChangeFilter ==
    /\ [](event.op = "init" =>
            (filter_range = "24h" /\ custom_start_date = None /\ custom_end_date = None))
    /\ [][/\ event'.op \notin {"filter", "custom"} => UNCHANGED filter_vars
          /\ (event'.op = "custom" /\ event'.missing) =>
                (UNCHANGED filter_vars /\ UNCHANGED historical_data)]_vars

\* Apply was clicked with a date missing while the 7 day filter and its
\* series were held
C19_Witness ==
    /\ event.op = "custom"
    /\ event.missing
    /\ event.notify = "warning"
    /\ filter_range = "7d"
    /\ ~Empty(historical_data)

-----------------------------------------------------------------------------
(* The series held for display *)

\* the last handler was a filter change or a refresh that ran to its end
FilterChangeOrRefresh(e) ==
    \/ e.op \in {"filter", "refresh"} /\ ~e.escaped
    \/ e.op = "custom" /\ ~e.missing /\ ~e.escaped

\* every row of a series has its timestamp inside an interval, ends included
SeriesInside(series, range) ==
    \A i \in DOMAIN series :
        /\ range.since.utc <= series[i].timestamp.utc
        /\ series[i].timestamp.utc <= range.until.utc

\* the interval the filter held now resolves to at the clock reading of the
\* fetch of the last handler
IntervalAtFetch(e) ==
    ResolveRange(filter_range, custom_start_date, custom_end_date, e.hist[1].at)

\* C20: after a filter change or a refresh that ran to its end, the series
\* held was fetched for the filter now selected (its token and, for
\* custom, its dates), and every row of it has its timestamp inside the
\* interval that filter resolves to, for custom the interval from the
\* chosen start date to the chosen end date; with a store and without.
C20_HeldSeriesInsideFilter ==
    FilterChangeOrRefresh(event) =>
        /\ event.hist # None
        /\ event.hist[1].time_range = filter_range
        /\ filter_range = "custom" =>
              /\ event.hist[1].start_date = custom_start_date
              /\ event.hist[1].end_date = custom_end_date
        /\ SeriesInside(Get(historical_data, "temperature_history", <<>>),
                        IntervalAtFetch(event))
        /\ SeriesInside(Get(historical_data, "humidity_history", <<>>),
                        IntervalAtFetch(event))

-----------------------------------------------------------------------------
(* Handlers on the event loop *)

\* C21: the filter, refresh and export handlers of a session do not
\* interleave: at most one of them is started and not finished, and while
\* one is, every step is the next piece of that handler, so that nothing
\* else writes the filter, the series held or the latest sensor data
\* between its reads and writes.
C21_HandlersDoNotInterleave ==
    /\ [](Len(tasks) <= 1)
    /\ [][Len(tasks) = 1 =>
            \/ tasks' = <<>>
            \/ /\ Len(tasks') = 1
               /\ tasks'[1].op = tasks[1].op
               /\ tasks'[1].pc # tasks[1].pc]_vars

\* a refresh under the 7 day filter that has fetched the latest readings and
\* not yet the series
C21_Witness ==
    /\ Len(tasks) = 1
    /\ tasks[1].op = "refresh"
    /\ tasks[1].pc = "hist"
    /\ tasks[1].args = <<"7d", None, None>>
    /\ ~Empty(sensor_data)

-----------------------------------------------------------------------------
(* The two ways to refresh *)

\* the step makes the store queries of a run of refresh_dashboard from the
\* state before it, and leaves the data of the dashboard as that run does
LeavesRefreshed ==
    \E q1 \in Q, q2 \in Q, q3 \in Q, q4 \in Q :
        LET stats == fetch_device_stats(supabase, device_stats, store, now, q1, q2)
            latest == fetch_latest_sensor_data(supabase, sensor_data, store, now, q3)
            f == FetchForFilter(filter_range, custom_start_date, custom_end_date, q4)
        IN  /\ event'.queries = Len(stats.queries) + Len(latest.queries)
                                        + Len(f.ret.queries)
            /\ device_stats' = stats.device_stats
            /\ sensor_data' = latest.sensor_data
            /\ historical_data' = f.ret.result
            /\ stats_labels' = stats.device_stats

\* C22: a click on 'Refresh Data' does what a tick of the 30 second timer
\* does: from the same state it fetches the device stats, the latest
\* readings and the series of the current filter again and leaves the
\* dashboard in the state the timer's refresh leaves it in.
C22_ManualRefreshIsTimerRefresh ==
    [][event'.op = "click_refresh" => LeavesRefreshed]_vars

-----------------------------------------------------------------------------
(* One state for every session *)

\* what logout is to leave alone
kept_by_logout == <<filter_range, custom_start_date, custom_end_date,
                    device_stats, sensor_data>>

\* C23: the authenticated flag, the filter and the fetched data belong to
\* the process, not to a session.  A page request renders the dashboard
\* when the last authentication change in any session was a login, also
\* for a session that has never shown the login form, and the login form
\* when it was a logout in any session; a logout clears the flag and
\* leaves the filter token, the custom dates, the device stats and the
\* sensor data as they were.
C23_OneStateForAllSessions ==
    /\ [](event.op = "page" =>
            /\ event.history = "login" => event.rendered = "dashboard"
            /\ event.history = "logout" => event.rendered = "login")
    /\ [][event'.op = "logout" => (~authenticated' /\ UNCHANGED kept_by_logout)]_vars

\* the first request of a session rendered the dashboard, under the custom
\* filter another session had set
C23_Witness ==
    /\ event.op = "page"
    /\ event.first
    /\ event.rendered = "dashboard"
    /\ filter_range = "custom"
    /\ ~Empty(sensor_data)

====
